---- MODULE Spec2Model ----
(***************************************************************************)
(* Model of log.c (rxi / BDeliers leveled logger): the process-wide state  *)
(* L, the configuration functions, log_add_callback / log_add_fp and the   *)
(* steps of log_log, per calling thread.                                   *)
(***************************************************************************)
EXTENDS Integers, Sequences, FiniteSets, TLC

NULL == "NULL"

\* log.c:27-29.  Compile-time capacity of L.callbacks (#ifndef-guarded, 10
\* when the build does not set it); the model is built with a small value.
LOGC__MAX_CALLBACKS == 2

\* Number of threads that may call log_log.
MaxThreads == 2

\* log.c:32-34
LOGC__DEFAULT_STDOUT == "stderr"

\* log.c:59.  A C array is 0-based, a TLA+ tuple 1-based.
level_strings == <<"FATAL", "ERROR", "WARN", "INFO", "DEBUG", "TRACE">>

Levels == 0 .. (Len(level_strings) - 1)

\* log.c:135-138
log_level_string(lv) == level_strings[lv + 1]

LevelOf(name) == CHOOSE lv \in Levels : log_level_string(lv) = name

Threads == 1 .. MaxThreads
Slots == 0 .. (LOGC__MAX_CALLBACKS - 1)

\* Input sets of the two specifications.
Streams == {"fp1", "fp2"}
SinkLevels == {LevelOf("ERROR"), LevelOf("INFO")}
StdLevels == {LevelOf("FATAL"), LevelOf("WARN"), LevelOf("DEBUG")}
LockArgs == {<<NULL, NULL>>, <<"rec_hook", "ctxA">>, <<"rec_hook", "ctxB">>}
NullSinkArgs == {<<NULL, 0>>, <<"fp1", LevelOf("INFO")>>}

StreamsMT == {"fp1"}
SinkLevelsMT == {LevelOf("INFO")}
StdLevelsMT == {LevelOf("FATAL"), LevelOf("INFO")}
LogLevelsMT == {LevelOf("WARN"), LevelOf("DEBUG")}
LockArgsMT == {<<NULL, NULL>>, <<"rec_hook", "ctxA">>, <<"mutex_hook", "ctxA">>}
Ctxs == {NULL, "ctxA", "ctxB"}

VARIABLES
    lock_ptr,    \* L.lock_ptr
    lock_fn,     \* L.lock_fn: NULL, "rec_hook" (records, never blocks) or "mutex_hook"
    std_level,   \* L.std_level
    std_quiet,   \* L.std_quiet
    callbacks,   \* L.callbacks: Slots -> Callback
    pc,          \* per thread: position inside log_log, "idle" outside
    level,       \* per thread: log_log's argument level
    i,           \* per thread: the loop variable of log_log
    trace,       \* per thread: the hook and formatting-function calls of the running log_log
    rc,          \* what the last log_add_callback returned: <<value>>, <<>> before the first
    mutex,       \* the caller's mutex behind each lock context: holder thread or 0
    buffered,    \* streams holding written but unflushed output
    nAdd,        \* log_add_callback calls so far, saturating at the capacity
    nAddFn,      \* log_add_callback calls with a non-null fn so far, saturating
    regOrder     \* slots in the order sinks were stored

vars == <<lock_ptr, lock_fn, std_level, std_quiet, callbacks, pc, level, i, trace,
          rc, mutex, buffered, nAdd, nAddFn, regOrder>>

Lvars == <<lock_ptr, lock_fn, std_level, std_quiet, callbacks>>
histvars == <<rc, nAdd, nAddFn, regOrder>>
threadvars == <<pc, level, i, trace>>

\* log.c:41-47
Callback(fn, stream, lv) == [fn |-> fn, stream |-> stream, level |-> lv]

\* A zero-initialised slot of the static struct L.
EmptySlot == Callback(NULL, NULL, 0)

\* The int a function returned, and no return so far.
Returns(v) == <<v>>
NoReturn == <<>>

Min(a, b) == IF a < b THEN a ELSE b

\* One entry of a call's trace.
LockEv(acquire, udata) ==
    [op |-> "lock_fn", acquire |-> acquire, udata |-> udata, slot |-> -1, stream |-> NULL]
CallEv(fn, slot, stream) ==
    [op |-> fn, acquire |-> FALSE, udata |-> NULL, slot |-> slot, stream |-> stream]

\* log.c:49-57: static storage is zero-initialised.
Init ==
    /\ lock_ptr = NULL
    /\ lock_fn = NULL
    /\ std_level = 0
    /\ std_quiet = FALSE
    /\ callbacks = [k \in Slots |-> EmptySlot]
    /\ pc = [t \in Threads |-> "idle"]
    /\ level = [t \in Threads |-> 0]
    /\ i = [t \in Threads |-> 0]
    /\ trace = [t \in Threads |-> <<>>]
    /\ rc = NoReturn
    /\ mutex = [c \in Ctxs |-> 0]
    /\ buffered = {}
    /\ nAdd = 0
    /\ nAddFn = 0
    /\ regOrder = <<>>

\* The setters and log_add_callback take no lock (log.c:140-167): a call that
\* overlaps a running log_log is a data race, so callers serialise them with
\* logging.
NoLogRunning == \A t \in Threads : pc[t] = "idle"

\* log.c:140-144
log_set_lock(fn, lock) ==
    /\ NoLogRunning
    /\ lock_fn' = fn
    /\ lock_ptr' = lock
    /\ UNCHANGED <<std_level, std_quiet, callbacks, threadvars, histvars, mutex, buffered>>

\* log.c:146-149
log_set_level(lv) ==
    /\ NoLogRunning
    /\ std_level' = lv
    /\ UNCHANGED <<lock_ptr, lock_fn, std_quiet, callbacks, threadvars, histvars, mutex, buffered>>

\* log.c:151-154
log_set_quiet(enable) ==
    /\ NoLogRunning
    /\ std_quiet' = enable
    /\ UNCHANGED <<lock_ptr, lock_fn, std_level, callbacks, threadvars, histvars, mutex, buffered>>

\* Variants of FirstEmpty: a full registry hands out its last slot again; the
\* search runs from the last slot down.
FirstEmptyOverwrite(cbs) ==
    IF \E k \in Slots : cbs[k].fn = NULL
    THEN CHOOSE k \in Slots : cbs[k].fn = NULL /\ \A j \in 0 .. (k - 1) : cbs[j].fn # NULL
    ELSE LOGC__MAX_CALLBACKS - 1

FirstEmptyLast(cbs) ==
    IF \E k \in Slots : cbs[k].fn = NULL
    THEN CHOOSE k \in Slots : cbs[k].fn = NULL /\ \A j \in Slots : j > k => cbs[j].fn # NULL
    ELSE LOGC__MAX_CALLBACKS

\* log.c:158-165: the index the for loop stops at, LOGC__MAX_CALLBACKS when
\* every slot has a fn.
FirstEmpty(cbs) ==
    IF \E k \in Slots : cbs[k].fn = NULL
    THEN CHOOSE k \in Slots : cbs[k].fn = NULL /\ \A j \in 0 .. (k - 1) : cbs[j].fn # NULL
    ELSE LOGC__MAX_CALLBACKS

\* log.c:156-167
log_add_callback(fn, stream, lv) ==
    /\ NoLogRunning
    /\ LET k == FirstEmpty(callbacks) IN
        IF k < LOGC__MAX_CALLBACKS
        THEN /\ callbacks' = [callbacks EXCEPT ![k] = Callback(fn, stream, lv)]
             /\ rc' = Returns(0)
             /\ regOrder' = IF fn # NULL THEN Append(regOrder, k) ELSE regOrder
        ELSE /\ callbacks' = callbacks
             /\ rc' = Returns(-1)
             /\ regOrder' = regOrder
    /\ nAdd' = Min(nAdd + 1, LOGC__MAX_CALLBACKS)
    /\ nAddFn' = IF fn # NULL THEN Min(nAddFn + 1, LOGC__MAX_CALLBACKS) ELSE nAddFn
    /\ UNCHANGED <<lock_ptr, lock_fn, std_level, std_quiet, threadvars, mutex, buffered>>

\* log.c:169-172
log_add_fp(fp, lv) == log_add_callback("file_callback", fp, lv)

\* log.c:181-189: entry of log_log with argument level.
log_log(t, lv) ==
    /\ pc[t] = "idle"
    /\ pc' = [pc EXCEPT ![t] = "lock"]
    /\ level' = [level EXCEPT ![t] = lv]
    /\ i' = [i EXCEPT ![t] = 0]
    /\ trace' = [trace EXCEPT ![t] = <<>>]
    /\ UNCHANGED <<Lvars, histvars, mutex, buffered>>

\* log.c:121 and log.c:129: whether lock() / unlock() call the hook.
HookInstalled(fn) == fn # NULL

\* Variant of lock: the hook is never called.
lock_skipped(t) ==
    /\ pc[t] = "lock"
    /\ pc' = [pc EXCEPT ![t] = "std"]
    /\ UNCHANGED <<Lvars, histvars, level, i, buffered, mutex, trace>>

\* log.c:119-125, called at log.c:192.  A mutex hook blocks until the mutex
\* behind lock_ptr is free.
lock(t) ==
    /\ pc[t] = "lock"
    /\ IF HookInstalled(lock_fn)
       THEN /\ lock_fn = "mutex_hook" => mutex[lock_ptr] = 0
            /\ mutex' = IF lock_fn = "mutex_hook"
                        THEN [mutex EXCEPT ![lock_ptr] = t] ELSE mutex
            /\ trace' = [trace EXCEPT ![t] = Append(@, LockEv(TRUE, lock_ptr))]
       ELSE UNCHANGED <<mutex, trace>>
    /\ pc' = [pc EXCEPT ![t] = "std"]
    /\ UNCHANGED <<Lvars, histvars, level, i, buffered>>

\* Variants of StdoutApplies: quiet is not read; the comparison is strict.
StdoutAppliesIgnoringQuiet(quiet, threshold, lv) == lv >= threshold
StdoutAppliesStrict(quiet, threshold, lv) == ~quiet /\ lv > threshold

\* log.c:195
StdoutApplies(quiet, threshold, lv) == ~quiet /\ lv >= threshold

\* log.c:194-201 with stdout_callback (log.c:66-100): the line is written and
\* the stream flushed (log.c:99).
log_stdout(t) ==
    /\ pc[t] = "std"
    /\ IF StdoutApplies(std_quiet, std_level, level[t])
       THEN /\ trace' = [trace EXCEPT ![t] =
                            Append(@, CallEv("stdout_callback", -1, LOGC__DEFAULT_STDOUT))]
            /\ buffered' = buffered \ {LOGC__DEFAULT_STDOUT}
       ELSE UNCHANGED <<trace, buffered>>
    /\ pc' = [pc EXCEPT ![t] = "loop"]
    /\ i' = [i EXCEPT ![t] = 0]
    /\ UNCHANGED <<Lvars, histvars, level, mutex>>

\* Variant of LoopContinues: the loop stops one slot early.
LoopContinuesOffByOne(k, cbs) == k < LOGC__MAX_CALLBACKS - 1 /\ cbs[k].fn # NULL

\* log.c:204: the loop condition.
LoopContinues(k, cbs) == k < LOGC__MAX_CALLBACKS /\ cbs[k].fn # NULL

\* log.c:207
CallbackApplies(cb, lv) == lv >= cb.level

\* Variant of AfterFn: file_callback without its fflush.
AfterFnNoFlush(fn, stream, flushes) ==
    IF flushes
    THEN buffered \ {stream}
    ELSE buffered \cup {stream}

\* The streams left unflushed after cb->fn(&ev) returns (log.c:211).
\* file_callback writes and flushes (log.c:102-117); log_log itself never
\* flushes, so a caller-supplied function leaves the stream as it chooses.
AfterFn(fn, stream, flushes) ==
    IF fn = "file_callback" \/ flushes
    THEN buffered \ {stream}
    ELSE buffered \cup {stream}

\* log.c:203-214: one evaluation of the loop condition and, when it holds,
\* one iteration of the body.
log_callbacks(t) ==
    /\ pc[t] = "loop"
    /\ IF LoopContinues(i[t], callbacks)
       THEN LET cb == callbacks[i[t]] IN
            /\ IF CallbackApplies(cb, level[t])
               THEN /\ trace' = [trace EXCEPT ![t] =
                                    Append(@, CallEv(cb.fn, i[t], cb.stream))]
                    /\ \E flushes \in BOOLEAN :
                          buffered' = AfterFn(cb.fn, cb.stream, flushes)
               ELSE UNCHANGED <<trace, buffered>>
            /\ i' = [i EXCEPT ![t] = @ + 1]
            /\ pc' = pc
       ELSE /\ pc' = [pc EXCEPT ![t] = "unlock"]
            /\ UNCHANGED <<trace, buffered, i>>
    /\ UNCHANGED <<Lvars, histvars, level, mutex>>

\* Variant of unlock: the hook is not released.
unlock_skipped(t) ==
    /\ pc[t] = "unlock"
    /\ pc' = [pc EXCEPT ![t] = "ret"]
    /\ UNCHANGED <<Lvars, histvars, level, i, buffered, mutex, trace>>

\* log.c:127-133, called at log.c:217.
unlock(t) ==
    /\ pc[t] = "unlock"
    /\ IF HookInstalled(lock_fn)
       THEN /\ mutex' = IF lock_fn = "mutex_hook"
                        THEN [mutex EXCEPT ![lock_ptr] = 0] ELSE mutex
            /\ trace' = [trace EXCEPT ![t] = Append(@, LockEv(FALSE, lock_ptr))]
       ELSE UNCHANGED <<mutex, trace>>
    /\ pc' = [pc EXCEPT ![t] = "ret"]
    /\ UNCHANGED <<Lvars, histvars, level, i, buffered>>

\* log.c:218: log_log returns to its caller.
log_return(t) ==
    /\ pc[t] = "ret"
    /\ pc' = [pc EXCEPT ![t] = "idle"]
    /\ level' = [level EXCEPT ![t] = 0]
    /\ i' = [i EXCEPT ![t] = 0]
    /\ trace' = [trace EXCEPT ![t] = <<>>]
    /\ UNCHANGED <<Lvars, histvars, mutex, buffered>>

\* One calling thread, the wide input sets.
Caller == CHOOSE t \in Threads : \A u \in Threads : t <= u

Next ==
    \/ \E a \in LockArgs : log_set_lock(a[1], a[2])
    \/ \E lv \in StdLevels : log_set_level(lv)
    \/ \E b \in BOOLEAN : log_set_quiet(b)
    \/ \E s \in Streams, lv \in SinkLevels : log_add_callback("user_fn", s, lv)
    \/ \E a \in NullSinkArgs : log_add_callback(NULL, a[1], a[2])
    \/ \E s \in Streams, lv \in SinkLevels : log_add_fp(s, lv)
    \/ \E lv \in Levels : log_log(Caller, lv)
    \/ lock(Caller)
    \/ log_stdout(Caller)
    \/ log_callbacks(Caller)
    \/ unlock(Caller)
    \/ log_return(Caller)

Spec == Init /\ [][Next]_vars

\* Several calling threads, the small input sets.
NextMT ==
    \/ \E a \in LockArgsMT : log_set_lock(a[1], a[2])
    \/ \E lv \in StdLevelsMT : log_set_level(lv)
    \/ \E b \in BOOLEAN : log_set_quiet(b)
    \/ \E s \in StreamsMT, lv \in SinkLevelsMT : log_add_callback("user_fn", s, lv)
    \/ \E s \in StreamsMT, lv \in SinkLevelsMT : log_add_fp(s, lv)
    \/ \E t \in Threads, lv \in LogLevelsMT : log_log(t, lv)
    \/ \E t \in Threads : lock(t)
    \/ \E t \in Threads : log_stdout(t)
    \/ \E t \in Threads : log_callbacks(t)
    \/ \E t \in Threads : unlock(t)
    \/ \E t \in Threads : log_return(t)

SpecMT == Init /\ [][NextMT]_vars


(***************************************************************************)
(* Vocabulary of the properties.                                           *)
(***************************************************************************)
Returned(t) == pc[t] = "ret"

Positions(tr) == DOMAIN tr
LockPos(tr) == {p \in Positions(tr) : tr[p].op = "lock_fn"}
StdPos(tr) == {p \in Positions(tr) : tr[p].op = "stdout_callback"}
SinkPos(tr) == {p \in Positions(tr) : tr[p].slot >= 0}
SinkSlots(tr) == {tr[p].slot : p \in SinkPos(tr)}

Populated == {k \in Slots : callbacks[k].fn # NULL}
PrefixOK == \A k \in Populated : \A j \in 0 .. (k - 1) : j \in Populated

\* The sinks a call at level lv is due to reach: the populated prefix, cut by
\* the comparison of log.c:207.
Qualifying(lv) ==
    {k \in Slots : /\ \A j \in 0 .. k : callbacks[j].fn # NULL
                   /\ lv >= callbacks[k].level}

AddArgs ==
    ({"user_fn", "file_callback"} \X Streams \X SinkLevels)
        \cup {<<NULL, a[1], a[2]>> : a \in NullSinkArgs}

DefaultConfig ==
    /\ lock_fn = NULL
    /\ lock_ptr = NULL
    /\ std_level = 0
    /\ std_quiet = FALSE
    /\ \A k \in Slots : callbacks[k].fn = NULL

\* C1: a sink registered at threshold L2 is invoked by a log call at every
\* level L1 <= L2 (at least as severe, FATAL = 0) and by no call at a level
\* numerically greater than L2.
CE_C1 ==
    \A t \in Threads : Returned(t) =>
        \A k \in Populated :
            /\ level[t] <= callbacks[k].level => k \in SinkSlots(trace[t])
            /\ level[t] > callbacks[k].level => k \notin SinkSlots(trace[t])

\* C2: with quiet = false a log call at level L writes a standard-output line
\* iff L is numerically <= the standard threshold; with threshold WARN and one
\* file sink at ERROR, INFO writes nothing, WARN writes standard output only,
\* ERROR writes both.
CE_C2 ==
    \A t \in Threads : (Returned(t) /\ ~std_quiet) =>
        /\ StdPos(trace[t]) # {} <=> level[t] <= std_level
        /\ ( /\ std_level = LevelOf("WARN")
             /\ Populated = {0}
             /\ callbacks[0].fn = "file_callback"
             /\ callbacks[0].level = LevelOf("ERROR") )
           => /\ level[t] = LevelOf("INFO") =>
                    StdPos(trace[t]) = {} /\ SinkPos(trace[t]) = {}
              /\ level[t] = LevelOf("WARN") =>
                    StdPos(trace[t]) # {} /\ SinkPos(trace[t]) = {}
              /\ level[t] = LevelOf("ERROR") =>
                    StdPos(trace[t]) # {} /\ SinkPos(trace[t]) # {}

\* C3 as stated: from an empty registry the first N log_add_callback calls
\* return 0, and every later call returns -1 and leaves the slots unchanged.
CE_C3 ==
    [][\A a \in AddArgs : log_add_callback(a[1], a[2], a[3]) =>
            IF nAdd < LOGC__MAX_CALLBACKS
            THEN rc' = Returns(0)
            ELSE rc' = Returns(-1) /\ callbacks' = callbacks]_vars

\* C3 amended: the first N log_add_callback calls with a non-null fn return 0
\* and each stores its sink; once N such calls were made every further call,
\* null fn or not, returns -1 and changes no slot; a log call then reaches
\* exactly the slots among all N whose threshold comparison (log.c:207) holds.
AddOutcome_C3 ==
    \A a \in AddArgs : log_add_callback(a[1], a[2], a[3]) =>
        IF nAddFn < LOGC__MAX_CALLBACKS
        THEN /\ rc' = Returns(0)
             /\ a[1] # NULL =>
                    /\ callbacks'[nAddFn] = Callback(a[1], a[2], a[3])
                    /\ \A k \in Slots \ {nAddFn} : callbacks'[k] = callbacks[k]
        ELSE /\ rc' = Returns(-1)
             /\ callbacks' = callbacks

FullDelivery_C3 ==
    \A t \in Threads : (Returned(t) /\ nAddFn = LOGC__MAX_CALLBACKS) =>
        /\ Populated = Slots
        /\ SinkSlots(trace[t]) = {k \in Slots : level[t] >= callbacks[k].level}

Thm_C3 == [](FullDelivery_C3) /\ [][AddOutcome_C3]_vars

Wit_C3 ==
    /\ nAddFn = LOGC__MAX_CALLBACKS
    /\ rc = Returns(-1)
    /\ \E t \in Threads : Returned(t) /\ SinkSlots(trace[t]) = Slots

\* C4: with a lock hook installed a log call calls the hook exactly twice,
\* first with acquire = true and last with acquire = false, both with the
\* installed context, every write lying between the two; with no hook
\* installed the call makes no hook call.
Thm_C4 ==
    \A t \in Threads :
        LET tr == trace[t] IN
        /\ (lock_fn = NULL) => LockPos(tr) = {}
        /\ (lock_fn # NULL /\ tr # <<>>) => tr[1] = LockEv(TRUE, lock_ptr)
        /\ (lock_fn # NULL /\ Returned(t)) =>
              /\ Len(tr) >= 2
              /\ tr[Len(tr)] = LockEv(FALSE, lock_ptr)
              /\ LockPos(tr) = {1, Len(tr)}

Wit_C4 ==
    \E t \in Threads :
        /\ Returned(t)
        /\ lock_fn # NULL
        /\ StdPos(trace[t]) # {}
        /\ SinkPos(trace[t]) # {}

\* C5: with quiet set no log call writes to standard output, whatever the
\* level and the standard threshold; the sinks a call invokes are the
\* qualifying sinks, whatever quiet is; with quiet cleared standard output is
\* written again whenever the threshold comparison holds.
Thm_C5 ==
    \A t \in Threads : Returned(t) =>
        /\ std_quiet => StdPos(trace[t]) = {}
        /\ SinkSlots(trace[t]) = Qualifying(level[t])
        /\ ~std_quiet => (StdPos(trace[t]) # {} <=> level[t] >= std_level)

Wit_C5 ==
    \E t \in Threads :
        /\ Returned(t)
        /\ std_quiet
        /\ level[t] >= std_level
        /\ SinkPos(trace[t]) # {}

\* C6: under a mutex hook a log call acquires the hook before it reads
\* std_quiet, std_level or the registry and before any write, releases it
\* after its last write, and at most one call is between acquire and release,
\* so two calls never both have output under way.
Acquired(t) == \E p \in LockPos(trace[t]) : trace[t][p].acquire
Released(t) == \E p \in LockPos(trace[t]) : ~trace[t][p].acquire
InCriticalSection(t) == Acquired(t) /\ ~Released(t)
HasReadConfig(t) == pc[t] \in {"loop", "unlock", "ret"}
Wrote(t) == StdPos(trace[t]) \cup SinkPos(trace[t]) # {}
MayStillWrite(t) == pc[t] \in {"std", "loop"}

Thm_C6 ==
    (lock_fn = "mutex_hook") =>
        /\ Cardinality({t \in Threads : InCriticalSection(t)}) <= 1
        /\ \A t \in Threads :
              /\ (HasReadConfig(t) \/ Wrote(t)) =>
                    trace[t] # <<>> /\ trace[t][1] = LockEv(TRUE, lock_ptr)
              /\ MayStillWrite(t) => InCriticalSection(t) /\ mutex[lock_ptr] = t
              /\ Released(t) => trace[t][Len(trace[t])] = LockEv(FALSE, lock_ptr)
        /\ \A t, u \in Threads :
              (t # u /\ Wrote(t) /\ MayStillWrite(t)) => ~(Wrote(u) /\ ~Released(u))

Wit_C6 ==
    /\ lock_fn = "mutex_hook"
    /\ \E t, u \in Threads :
          /\ t # u
          /\ InCriticalSection(t)
          /\ Wrote(t)
          /\ pc[t] = "loop"
          /\ pc[u] = "lock"

\* C7: log_add_callback stores a sink in the first empty slot, so sinks sit in
\* registration order; a log call invokes exactly the qualifying sinks, each
\* once, in slot order, the standard-output write (if any) before all of them.
Thm_C7 ==
    /\ regOrder = [p \in 1 .. Cardinality(Populated) |-> p - 1]
    /\ \A t \in Threads : Returned(t) =>
          LET tr == trace[t] IN
          /\ SinkSlots(tr) = Qualifying(level[t])
          /\ \A p, q \in SinkPos(tr) : p < q => tr[p].slot < tr[q].slot
          /\ \A p \in StdPos(tr), q \in SinkPos(tr) : p < q
          /\ \A p \in SinkPos(tr) :
                /\ tr[p].op = callbacks[tr[p].slot].fn
                /\ tr[p].stream = callbacks[tr[p].slot].stream

Wit_C7 ==
    \E t \in Threads :
        /\ Returned(t)
        /\ StdPos(trace[t]) # {}
        /\ Cardinality(SinkPos(trace[t])) >= 2

\* C8 as stated: when log_log returns, every sink whose threshold is met was
\* invoked and its destination is flushed, built-in and caller-supplied alike.
CE_C8 ==
    \A t \in Threads : Returned(t) =>
        /\ SinkSlots(trace[t]) = Qualifying(level[t])
        /\ \A p \in SinkPos(trace[t]) : trace[t][p].stream \notin buffered

\* C8 amended: when log_log returns, every qualifying sink was invoked; the
\* standard stream is flushed, and output is left buffered only on a
\* destination registered with a caller-supplied formatting function
\* (file_callback flushes, log_log itself does not).
Thm_C8 ==
    /\ LOGC__DEFAULT_STDOUT \notin buffered
    /\ \A s \in buffered :
          \E k \in Populated : callbacks[k].fn = "user_fn" /\ callbacks[k].stream = s
    /\ \A t \in Threads : Returned(t) =>
          SinkSlots(trace[t]) = Qualifying(level[t])

Wit_C8 ==
    \E t \in Threads :
        /\ Returned(t)
        /\ \E p, q \in SinkPos(trace[t]) :
              /\ trace[t][p].op = "file_callback"
              /\ trace[t][p].stream \notin buffered
              /\ trace[t][q].op = "user_fn"
              /\ trace[t][q].stream \in buffered

\* C9: the state after construction has threshold 0, quiet false, an empty
\* registry and no lock hook; threshold 0 passes every level; a log call made
\* in that configuration writes one standard-output line, invokes no sink and
\* calls no hook, at every level.
DefaultCall_C9 ==
    /\ \A lv \in Levels : StdoutApplies(FALSE, 0, lv)
    /\ \A t \in Threads : (Returned(t) /\ DefaultConfig) =>
          trace[t] = <<CallEv("stdout_callback", -1, LOGC__DEFAULT_STDOUT)>>

Thm_C9 == DefaultConfig /\ [](DefaultCall_C9)

Wit_C9 ==
    \E t \in Threads :
        /\ Returned(t)
        /\ DefaultConfig
        /\ level[t] = LevelOf("TRACE")
        /\ Len(trace[t]) = 1

\* C10: the populated slots always form a prefix of the registry and never
\* shrink, also across log_add_callback calls with a null fn; the loop of
\* log_log ends having visited every populated slot; only log_add_callback
\* (log_add_fp through it) changes the registry.
Step_C10 ==
    /\ PrefixOK'
    /\ Populated \subseteq Populated'
    /\ callbacks' # callbacks =>
          \E a \in AddArgs : log_add_callback(a[1], a[2], a[3])
    /\ \A t \in Threads :
          pc'[t] = "unlock" => i'[t] = Cardinality(Populated')

Thm_C10 == PrefixOK /\ [][Step_C10]_vars

Wit_C10 ==
    /\ nAdd > nAddFn
    /\ rc = Returns(0)
    /\ Populated # {}
    /\ callbacks[LOGC__MAX_CALLBACKS - 1] # EmptySlot
    /\ callbacks[LOGC__MAX_CALLBACKS - 1].fn = NULL
    /\ \E t \in Threads : pc[t] = "unlock"

====
